---------------------------- MODULE Spec2Model ----------------------------
(***************************************************************************)
(* GitHub-QQ-Bot: the incremental multi-branch commit synchronisation      *)
(* engine (src/main.py, src/src/github_monitor.py, src/src/database.py).   *)
(*                                                                         *)
(* A commit is identified by its full SHA, modelled as a positive integer  *)
(* handed out in creation order.  The clock counts ticks shorter than a    *)
(* second; the remote reports commit dates in whole seconds.               *)
(* A Python Optional is a sequence of length at most one: None is << >>    *)
(* and a present value x is <<x>>.                                         *)
(***************************************************************************)
EXTENDS Integers, Sequences, FiniteSets

VARIABLES
    clock,            \* wall clock in ticks (datetime.now(timezone.utc))
    dates,            \* dates[sha]: commit date of commit sha in whole seconds
    branch_commits,   \* branch_commits[repo][branch]: commits reachable from the branch head
    repo_configs,     \* main.py:55, the list returned by Config.get_repo_configs()
    db,               \* table repo_checks: db[repo] is None or <<row>>
    pc,               \* position of run() / process_repo()
    idx,              \* position of the for loop of run() in repo_configs
    last_check,       \* local of process_repo (main.py:96)
    last_commit_sha,  \* local of process_repo (main.py:97)
    commits,          \* local of process_repo (main.py:100)
    summary,          \* local of process_repo (main.py:112, 117)
    cycle,            \* history: what the current cycle has seen and done
    quiet,            \* history: per repo, no commit or merge since its last fetch
    delivered,        \* history (HistorySpec): per repo, the commits delivered with success
    checkpointed,     \* history (HistorySpec): per repo, the commits delivered and checkpointed
    sync_in,          \* arguments of a stand-alone call of a function of the program
    sync_out          \* its result

vars == <<clock, dates, branch_commits, repo_configs, db, pc, idx, last_check,
          last_commit_sha, commits, summary, cycle, quiet, delivered,
          checkpointed, sync_in, sync_out>>

(***************************************************************************)
(* Bounds of the model.                                                    *)
(***************************************************************************)
MaxCommits == 2     \* commits ever created on the remote
MaxClock == 2       \* the clock runs from 0 to MaxClock ticks
TicksPerSecond == 2 \* resolution of the clock below one second
MaxLen == 3         \* longest commit list of a stand-alone get_new_commits call

\* params["per_page"] of _get_branch_commits.  The source asks for 30 commits
\* a page; the model scales the page down to the size of the histories it
\* explores, so that one commit more than MaxCommits overflows the page.
PerPage == 2

Repos == {"r1", "r2"}
BranchNames == {"main", "dev"}
DefaultBranch == "main"
\* The branch selector of a commit-list request: a branch name, or NoBranch
\* when the request carries no "sha" parameter.
NoBranch == "<none>"

None == << >>
Some(x) == <<x>>
IsSome(o) == o # << >>
Get(o) == o[1]

Shas == 1..MaxCommits

Range(s) == {s[i] : i \in 1..Len(s)}
Last(s) == s[Len(s)]
Reverse(s) == [i \in 1..Len(s) |-> s[Len(s) + 1 - i]]
Max(S) == CHOOSE m \in S : \A x \in S : x <= m
Min2(a, b) == IF a <= b THEN a ELSE b

RECURSIVE SortNewestFirst(_)
SortNewestFirst(S) ==
    IF S = {} THEN << >>
    ELSE LET m == Max(S) IN <<m>> \o SortNewestFirst(S \ {m})

RECURSIVE Concat(_)
Concat(ss) == IF ss = << >> THEN << >> ELSE Head(ss) \o Concat(Tail(ss))

(***************************************************************************)
(* The remote commit-history API (the environment of _get_branch_commits). *)
(***************************************************************************)
ToSeconds(t) == t \div TicksPerSecond

\* One item of the JSON list of GET /repos/{repo}/commits.
CommitData(sha, dts) == [sha |-> sha, date |-> dts[sha]]

Prefix(s, n) == SubSeq(s, 1, Min2(n, Len(s)))

\* GET /repos/{repo}/commits with per_page, an optional sha (branch) and an
\* optional since (whole seconds): the commits reachable from the selected
\* branch (the default branch without a selector) that are not older than
\* since, newest first, one page of them.
ApiListCommits(bc, dts, repo, sel, since) ==
    LET branch == IF sel = NoBranch THEN DefaultBranch ELSE sel
        kept == {c \in bc[repo][branch] : since = None \/ dts[c] >= Get(since)}
        listed == SortNewestFirst(kept)
    IN  Prefix([i \in 1..Len(listed) |-> CommitData(listed[i], dts)], PerPage)

(***************************************************************************)
(* src/src/github_monitor.py                                               *)
(***************************************************************************)
\* since.strftime('%Y-%m-%dT%H:%M:%SZ'): the time cut to whole seconds.
strftime(since) == IF IsSome(since) THEN Some(ToSeconds(Get(since))) ELSE None

\* _format_commit of the detail response of a commit.
FormatCommit(commit_data) ==
    [full_sha |-> commit_data.sha, date |-> commit_data.date]

\* The loop of lines 86-91: collect until the commit last_commit_sha is met.
RECURSIVE TakeUntil(_, _)
TakeUntil(commits_data, sha) ==
    IF commits_data = << >> THEN << >>
    ELSE IF Head(commits_data).sha = sha THEN << >>
    ELSE <<Head(commits_data)>> \o TakeUntil(Tail(commits_data), sha)

\* The loop of lines 95-99: _get_commit_details answers None (or
\* _format_commit an empty dict) for the commits of detail_fail, and a commit
\* without details is not appended.
RECURSIVE DetailedCommits(_, _)
DetailedCommits(commits_data, detail_fail) ==
    IF commits_data = << >> THEN << >>
    ELSE (IF Head(commits_data).sha \in detail_fail
          THEN << >> ELSE <<FormatCommit(Head(commits_data))>>)
         \o DetailedCommits(Tail(commits_data), detail_fail)

\* _get_branch_commits, given the response of the commit-list request
\* (status, data) and the commits whose detail request fails (detail_fail).
get_branch_commits(response, last_sha) ==
    IF response.status = "200"
    THEN LET commits_data ==
                 IF IsSome(last_sha)
                 THEN TakeUntil(response.data, Get(last_sha))
                 ELSE response.data
         IN  DetailedCommits(commits_data, response.detail_fail)
    ELSE << >>

\* if branch: params["sha"] = branch (lines 65-66)
Selector(branch) == IF branch = "" THEN NoBranch ELSE branch

\* Lines 33-34: no branches, or a "*" among them, means no branch selector.
\* The selectors of the fetches get_new_commits makes, in order.
\* A variant of the test of github_monitor.py:33 that takes only the list
\* ["*"] for the wildcard, as the log line of main.py:92 does.
ResolveBranches_onlyWildcard(branches) ==
    IF branches = << >> \/ branches = <<"*">>
    THEN <<NoBranch>>
    ELSE [i \in 1..Len(branches) |-> Selector(branches[i])]

ResolveBranches(branches) ==
    IF branches = << >> \/ "*" \in Range(branches)
    THEN <<NoBranch>>
    ELSE [i \in 1..Len(branches) |-> Selector(branches[i])]

\* A variant of the loop of github_monitor.py:49-55 that only skips a commit
\* equal to the one right before it.
RECURSIVE Dedupe_adjacent(_, _)
Dedupe_adjacent(all_commits, seen_shas) ==
    IF all_commits = << >> THEN << >>
    ELSE IF Head(all_commits).full_sha \in seen_shas
         THEN Dedupe_adjacent(Tail(all_commits), seen_shas)
         ELSE <<Head(all_commits)>>
              \o Dedupe_adjacent(Tail(all_commits), {Head(all_commits).full_sha})

\* Lines 50-55: keep the first occurrence of every full_sha.
RECURSIVE Dedupe(_, _)
Dedupe(all_commits, seen_shas) ==
    IF all_commits = << >> THEN << >>
    ELSE IF Head(all_commits).full_sha \in seen_shas
         THEN Dedupe(Tail(all_commits), seen_shas)
         ELSE <<Head(all_commits)>>
              \o Dedupe(Tail(all_commits), seen_shas \cup {Head(all_commits).full_sha})

\* The calls of _get_branch_commits that get_new_commits makes, in order,
\* with their arguments (lines 39-47).
FetchCalls(since, last_sha, branches) ==
    LET sels == ResolveBranches(branches)
    IN  [i \in 1..Len(sels) |->
            [branch |-> sels[i], since |-> since, last_commit_sha |-> last_sha]]

\* The per-branch results of get_new_commits, in fetch order (lines 39-47).
BranchResults(resp, last_sha, branches) ==
    LET calls == FetchCalls(None, last_sha, branches)
    IN  [i \in 1..Len(calls) |->
            get_branch_commits(resp[calls[i].branch], calls[i].last_commit_sha)]

\* A variant of get_new_commits in which the failure of a fetch is not
\* caught in _get_branch_commits and ends the call.
get_new_commits_abort(resp, last_sha, branches) ==
    IF \E s \in DOMAIN resp : resp[s].status # "200"
    THEN << >>
    ELSE Reverse(Concat(BranchResults(resp, last_sha, branches)))

\* get_new_commits, given resp[selector], the response of each fetch.
\* A variant of get_new_commits without the reversal of line 57.
get_new_commits_newest_first(resp, last_sha, branches) ==
    Dedupe(Concat(BranchResults(resp, last_sha, branches)), {})

get_new_commits(resp, last_sha, branches) ==
    LET all_commits == Concat(BranchResults(resp, last_sha, branches))
        unique_commits == Dedupe(all_commits, {})
    IN  Reverse(unique_commits)

(***************************************************************************)
(* src/src/database.py                                                     *)
(***************************************************************************)
\* get_last_check_time; ok is FALSE when the query raises.
\* A variant of get_last_check_time that answers the epoch when the query
\* fails.
get_last_check_time_epoch(d, repo, ok) ==
    IF ~ok THEN Some(0)
    ELSE IF IsSome(d[repo]) THEN Some(Get(d[repo]).last_check_time) ELSE None

get_last_check_time(d, repo, ok) ==
    IF ok /\ IsSome(d[repo]) THEN Some(Get(d[repo]).last_check_time) ELSE None

\* get_last_commit_sha; ok is FALSE when the query raises.
get_last_commit_sha(d, repo, ok) ==
    IF ok /\ IsSome(d[repo]) THEN Get(d[repo]).last_commit_sha ELSE None

\* Two variants of update_last_check_time.  The first writes the two fields
\* with two statements, of which a failure stops the second.  The second
\* commits the row before it fails.
update_last_check_time_split(d, repo, check_time, sha, now, ok) ==
    IF ok
    THEN [d EXCEPT ![repo] =
            Some([last_check_time |-> check_time,
                  last_commit_sha |-> sha,
                  created_at |-> IF IsSome(d[repo]) THEN Get(d[repo]).created_at ELSE now,
                  updated_at |-> now])]
    ELSE IF IsSome(d[repo])
         THEN [d EXCEPT ![repo] = Some([Get(d[repo]) EXCEPT !.last_check_time = check_time])]
         ELSE d

update_last_check_time_committed(d, repo, check_time, sha, now, ok) ==
    [d EXCEPT ![repo] =
        Some([last_check_time |-> check_time,
              last_commit_sha |-> sha,
              created_at |-> IF IsSome(d[repo]) THEN Get(d[repo]).created_at ELSE now,
              updated_at |-> now])]

\* A variant of update_last_check_time whose statement is not keyed by the
\* repository: it writes the row of every repository.
update_last_check_time_every_row(d, repo, check_time, sha, now, ok) ==
    IF ok
    THEN [r \in DOMAIN d |->
            Some([last_check_time |-> check_time,
                  last_commit_sha |-> sha,
                  created_at |-> IF IsSome(d[r]) THEN Get(d[r]).created_at ELSE now,
                  updated_at |-> now])]
    ELSE d

\* A variant of update_last_check_time without the COALESCE of line 80: the
\* replaced row gets a new created_at.
update_last_check_time_new_row(d, repo, check_time, sha, now, ok) ==
    IF ok
    THEN [d EXCEPT ![repo] =
            Some([last_check_time |-> check_time,
                  last_commit_sha |-> sha,
                  created_at |-> now,
                  updated_at |-> now])]
    ELSE d

\* update_last_check_time: one INSERT OR REPLACE of the whole row, keeping
\* created_at of an existing row; ok is FALSE when the statement raises (the
\* exception is logged and swallowed, the table is as before).
update_last_check_time(d, repo, check_time, sha, now, ok) ==
    IF ok
    THEN [d EXCEPT ![repo] =
            Some([last_check_time |-> check_time,
                  last_commit_sha |-> sha,
                  created_at |-> IF IsSome(d[repo]) THEN Get(d[repo]).created_at ELSE now,
                  updated_at |-> now])]
    ELSE d

(***************************************************************************)
(* The digest (src/src/ai_summarizer.py and main.py:110-122).  A text is    *)
(* modelled by what it lists: its kind, the commits of its lines in order  *)
(* and the count of its overflow note, 0 when it has none.                 *)
(***************************************************************************)
\* for commit in commits[:3] (ai_summarizer.py:99)
SimpleCap == 3
\* for commit in commits[:5] (main.py:118)
FallbackCap == 5

\* No text yet.
NoDigest == [kind |-> "none", listed |-> << >>, more |-> 0]

\* A listing of the first cap commits of the batch with a note counting the
\* others (ai_summarizer.py:98-104, main.py:117-122).
Listing(kind, batch, cap) ==
    [kind |-> kind,
     listed |-> [i \in 1..Min2(cap, Len(batch)) |-> batch[i].full_sha],
     more |-> IF Len(batch) > cap THEN Len(batch) - cap ELSE 0]

\* A variant of _generate_simple_summary that lists every commit.
generate_simple_summary_all(batch) == Listing("simple", batch, Len(batch))

\* AISummarizer._generate_simple_summary (ai_summarizer.py:94-108)
generate_simple_summary(batch) == Listing("simple", batch, SimpleCap)

\* AISummarizer.summarize_commits (ai_summarizer.py:20-66): the text of the
\* AI, or the simple summary when the request fails or answers nothing.
summarize_commits(batch, ai_ok) ==
    IF ai_ok THEN [kind |-> "ai", listed |-> << >>, more |-> 0]
    ELSE generate_simple_summary(batch)

\* A variant of main.py:114-122 that builds no text.
FallbackDigest_missing(batch) == NoDigest

\* The except branch of process_repo (main.py:114-122)
FallbackDigest(batch) == Listing("fallback", batch, FallbackCap)

\* What a call of the summarizer comes to: the AI answers, the AI request
\* fails, or summarize_commits itself raises.
SummaryOutcomes == {"ai", "ai_failed", "raise"}

\* main.py:111-122: the text process_repo hands to send_message.
Digest(batch, outcome) ==
    IF outcome = "raise" THEN FallbackDigest(batch)
    ELSE summarize_commits(batch, outcome = "ai")

(***************************************************************************)
(* src/main.py: run() and process_repo()                                   *)
(***************************************************************************)
\* The configurations explored (Config.get_repo_configs(), main.py:55).
Configs ==
    { <<[repo |-> "r1", branches |-> <<"*">>]>>,
      <<[repo |-> "r1", branches |-> <<"main", "dev">>]>> }

Configured == {repo_configs[i].repo : i \in 1..Len(repo_configs)}

\* repo_config of the running process_repo (main.py:88-89)
repo_config == repo_configs[idx]
repo == repo_config.repo
branches == repo_config.branches

InCycle == pc \in {"read", "fetch", "summarize", "deliver", "write", "done"}

Statuses == {"200", "404", "403", "500", "client_error"}

ShasOf(batch) == {batch[i].full_sha : i \in 1..Len(batch)}

\* start: the row of the repository when the cycle started;
\* clean: so far every request of the cycle (checkpoint reads, fetches,
\* detail requests) was answered without a failure;
\* delivery, write: the outcome of send_message and of the checkpoint write;
\* sends, writes: the calls of send_message and of update_last_check_time
\* the cycle has made;
\* time_read, sha_read: the outcome of the two checkpoint reads, kept until
\* the fetch that uses what they answered;
\* error: an exception has reached the handler of main.py:142.
NoCycle ==
    [start |-> None, clean |-> TRUE, delivery |-> "none", write |-> "none",
     sends |-> 0, writes |-> 0, time_read |-> "none", sha_read |-> "none",
     error |-> FALSE]

\* The state of the program when run() starts on an empty database with one
\* of the configurations cfgs.
InitFor(cfgs) ==
    /\ clock = 0
    /\ dates = << >>
    /\ branch_commits = [r \in Repos |-> [b \in BranchNames |-> {}]]
    /\ repo_configs \in cfgs
    /\ db = [r \in Repos |-> None]
    /\ pc = "loop"
    /\ idx = 1
    /\ last_check = None
    /\ last_commit_sha = None
    /\ commits = << >>
    /\ summary = NoDigest
    /\ cycle = NoCycle
    /\ quiet = [r \in Repos |-> TRUE]
    /\ delivered = [r \in Repos |-> {}]
    /\ checkpointed = [r \in Repos |-> {}]

InitProgram == InitFor(Configs)

Init ==
    /\ InitProgram
    /\ sync_in = None
    /\ sync_out = None

remote == <<clock, dates, branch_commits>>
locals == <<last_check, last_commit_sha, commits, summary>>
history == <<delivered, checkpointed>>
sync == <<sync_in, sync_out>>

\* ---- the environment --------------------------------------------------
\* The process looks at the remote history only in its fetch and at the
\* clock only in its checkpoint write, and the database is written by nobody
\* else.  The steps of the remote and of the clock are therefore placed
\* right before these two steps: every interleaving with the steps of the
\* process is equivalent to one of these.
EnvPoint == pc \in {"fetch", "write"}

Tick ==
    /\ EnvPoint
    /\ clock < MaxClock
    /\ clock' = clock + 1
    /\ UNCHANGED <<dates, branch_commits, repo_configs, db, pc, idx, locals,
                   cycle, quiet, history, sync>>

\* A new commit lands on branch b of repository r.
Commit(r, b) ==
    /\ EnvPoint
    /\ Len(dates) < MaxCommits
    /\ dates' = Append(dates, ToSeconds(clock))
    /\ branch_commits' = [branch_commits EXCEPT ![r][b] = @ \cup {Len(dates) + 1}]
    /\ quiet' = [quiet EXCEPT ![r] = FALSE]
    /\ UNCHANGED <<clock, repo_configs, db, pc, idx, locals, cycle, history, sync>>

\* Branch a is merged into branch b: what a reaches, b reaches.
Merge(r, a, b) ==
    /\ EnvPoint
    /\ a # b
    /\ ~(branch_commits[r][a] \subseteq branch_commits[r][b])
    /\ branch_commits' = [branch_commits EXCEPT ![r][b] = @ \cup branch_commits[r][a]]
    /\ quiet' = [quiet EXCEPT ![r] = FALSE]
    /\ UNCHANGED <<clock, dates, repo_configs, db, pc, idx, locals, cycle, history, sync>>

\* The process is killed and started again: only the database file survives.
Crash ==
    /\ pc # "loop" \/ idx # 1
    /\ pc' = "loop"
    /\ idx' = 1
    /\ last_check' = None
    /\ last_commit_sha' = None
    /\ commits' = << >>
    /\ summary' = NoDigest
    /\ cycle' = NoCycle
    /\ UNCHANGED <<remote, repo_configs, db, quiet, history, sync>>

\* ---- run(): the for loop over repo_configs (main.py:64-71) ---------------
StartRepo ==
    /\ pc = "loop"
    /\ idx <= Len(repo_configs)
    /\ pc' = "read"
    /\ cycle' = [NoCycle EXCEPT !.start = db[repo]]
    /\ UNCHANGED <<remote, repo_configs, db, idx, locals, quiet, history, sync>>

\* time.sleep(check_interval) after the last repository (main.py:70-71)
EndPass ==
    /\ pc = "loop"
    /\ idx > Len(repo_configs)
    /\ pc' = "sleep"
    /\ UNCHANGED <<remote, repo_configs, db, idx, locals, cycle, quiet, history, sync>>

WakeUp ==
    /\ pc = "sleep"
    /\ pc' = "loop"
    /\ idx' = 1
    /\ UNCHANGED <<remote, repo_configs, db, locals, cycle, quiet, history, sync>>

\* ---- process_repo() ------------------------------------------------------
\* main.py:96-97; each of the two queries may raise (t_ok, s_ok FALSE) and
\* then answers None.
ReadCheckpointWith(t_ok, s_ok) ==
    /\ pc = "read"
    /\ last_check' = get_last_check_time(db, repo, t_ok)
    /\ last_commit_sha' = get_last_commit_sha(db, repo, s_ok)
    /\ cycle' = [cycle EXCEPT !.clean = t_ok /\ s_ok,
                              !.time_read = IF t_ok THEN "ok" ELSE "failed",
                              !.sha_read = IF s_ok THEN "ok" ELSE "failed"]
    /\ pc' = "fetch"
    /\ UNCHANGED <<remote, repo_configs, db, idx, commits, summary, quiet, history, sync>>

ReadCheckpoint == \E t_ok \in BOOLEAN, s_ok \in BOOLEAN : ReadCheckpointWith(t_ok, s_ok)

\* The fetches get_new_commits makes for the running repository.
Fetches == Range(ResolveBranches(branches))

\* The since that the fetch of selector s is given in a call with since.
SinceOfFetch(s, since) ==
    LET calls == FetchCalls(since, None, branches)
    IN  calls[CHOOSE i \in 1..Len(calls) : calls[i].branch = s].since

\* What the remote answers to the fetches of one get_new_commits call with
\* since: the fetches of `answered` get 200 and the commit list, the others
\* `status`; of the commits asked for, the detail requests of detail_fail
\* fail.
Response(answered, status, detail_fail, since) ==
    [s \in Fetches |->
        IF s \in answered
        THEN [status |-> "200",
              data |-> ApiListCommits(branch_commits, dates, repo, s,
                                      strftime(SinceOfFetch(s, since))),
              detail_fail |-> detail_fail]
        ELSE [status |-> status, data |-> << >>, detail_fail |-> {}]]

\* The batch of the call get_new_commits(repo, since, last_sha, branches) of
\* main.py:100 when the remote answers as above.
Batch(since, last_sha, answered, status, detail_fail) ==
    get_new_commits(Response(answered, status, detail_fail, since), last_sha, branches)

\* The commits whose details a call asks for: those it returns when no
\* detail request fails.
AskedFor(since, last_sha, answered) ==
    ShasOf(Batch(since, last_sha, answered, "404", {}))

\* A variant of the test of main.py:102 that lets an empty batch through.
NothingNew_never(batch) == FALSE

\* main.py:102: if not commits
NothingNew(batch) == batch = << >>

\* main.py:100-104.  last_check and last_commit_sha are not read after the
\* call, and the model drops them there.
GetNewCommitsWith(answered, status, detail_fail) ==
    /\ pc = "fetch"
    /\ commits' = Batch(last_check, last_commit_sha, answered, status, detail_fail)
    /\ cycle' = [cycle EXCEPT !.clean = @ /\ answered = Fetches /\ detail_fail = {},
                              !.time_read = "none", !.sha_read = "none"]
    /\ quiet' = [quiet EXCEPT ![repo] = TRUE]
    /\ pc' = IF NothingNew(commits') THEN "done" ELSE "summarize"
    /\ last_check' = None
    /\ last_commit_sha' = None
    /\ UNCHANGED <<remote, repo_configs, db, idx, summary, history, sync>>

GetNewCommits ==
    /\ pc = "fetch"
    /\ \E answered \in SUBSET Fetches, status \in Statuses \ {"200"} :
       \E detail_fail \in SUBSET AskedFor(last_check, last_commit_sha, answered) :
          GetNewCommitsWith(answered, status, detail_fail)

\* A variant in which the exception leaves process_repo and reaches the
\* handler of run() (main.py:76-78), which sleeps and starts the next pass.
ErrorTarget_run == "sleep"

\* Where an exception raised in process_repo outside its inner handlers
\* goes: to the handler of main.py:142-143, after which process_repo returns.
ErrorTarget == "done"

\* The call of get_new_commits raises (main.py:100): nothing is fetched.
FetchRaises ==
    /\ pc = "fetch"
    /\ pc' = ErrorTarget
    /\ commits' = << >>
    /\ last_check' = None
    /\ last_commit_sha' = None
    /\ cycle' = [cycle EXCEPT !.clean = FALSE, !.error = TRUE,
                              !.time_read = "none", !.sha_read = "none"]
    /\ UNCHANGED <<remote, repo_configs, db, idx, summary, quiet, history, sync>>

\* main.py:111-122; summarize_commits answers the AI summary, or its own
\* simple summary when the AI request fails (ai_summarizer.py:63-66); when
\* it raises, process_repo builds the text itself.
SummarizeWith(outcome) ==
    /\ pc = "summarize"
    /\ summary' = Digest(commits, outcome)
    /\ pc' = "deliver"
    /\ UNCHANGED <<remote, repo_configs, db, idx, last_check, last_commit_sha,
                   commits, cycle, quiet, history, sync>>

Summarize == \E outcome \in SummaryOutcomes : SummarizeWith(outcome)

\* Two variants of the test of main.py:127: one that takes every answer of
\* send_message for a success, one that takes every call that returned for
\* a success.
UpdatesCheckpoint_unlessRaised(result) == result # "raise"
UpdatesCheckpoint_always(result) == TRUE

\* main.py:127: the checkpoint is updated when send_message answered True.
UpdatesCheckpoint(result) == result = "true"

\* A variant of main.py:137-140 that sends again after a failure.
AfterSend_retry(result) ==
    IF result = "true" THEN "write" ELSE "deliver"

\* main.py:127-140: where process_repo goes on after send_message.
AfterSend(result) ==
    IF UpdatesCheckpoint(result) THEN "write" ELSE "done"

\* main.py:126-140; send_message answers True or False, or raises.
SendMessage(result) ==
    /\ pc = "deliver"
    /\ cycle' = [cycle EXCEPT !.delivery = result, !.sends = @ + 1]
    /\ pc' = AfterSend(result)
    /\ UNCHANGED <<remote, repo_configs, db, idx, locals, quiet, checkpointed, sync>>

Deliver == \E result \in {"true", "false", "raise"} : SendMessage(result) /\ UNCHANGED delivered

\* SendMessage, recording the commits of a batch delivered with success.
SendMessageH(result) ==
    /\ SendMessage(result)
    /\ delivered' = IF result = "true"
                    THEN [delivered EXCEPT ![repo] = @ \cup ShasOf(commits)]
                    ELSE delivered

DeliverH == \E result \in {"true", "false", "raise"} : SendMessageH(result)

\* A variant of main.py:131 that takes commits[0].
LatestCommit_first(batch) == Head(batch)

\* main.py:131: latest_commit = commits[-1]
LatestCommit(batch) == Last(batch)

\* main.py:131-136; the write may raise inside update_last_check_time (ok
\* FALSE).
WriteCheckpoint(ok) ==
    /\ pc = "write"
    /\ db' = update_last_check_time(db, repo, clock,
                                    Some(LatestCommit(commits).full_sha), clock, ok)
    /\ cycle' = [cycle EXCEPT !.write = IF ok THEN "ok" ELSE "failed", !.writes = @ + 1]
    /\ pc' = "done"
    /\ UNCHANGED <<remote, repo_configs, idx, locals, quiet, delivered, sync>>

UpdateCheckpoint == \E ok \in BOOLEAN : WriteCheckpoint(ok) /\ UNCHANGED checkpointed

\* WriteCheckpoint, recording the commits of a batch that was checkpointed.
WriteCheckpointH(ok) ==
    /\ WriteCheckpoint(ok)
    /\ checkpointed' = IF ok
                       THEN [checkpointed EXCEPT ![repo] = @ \cup ShasOf(commits)]
                       ELSE checkpointed

UpdateCheckpointH == \E ok \in BOOLEAN : WriteCheckpointH(ok)

\* A variant of the for loop that passes over a repository.
AfterRepo_skip(i) == i + 2

\* for repo_config in repo_configs (main.py:67): the next position.
AfterRepo(i) == i + 1

\* process_repo returns; the for loop moves to the next repository.
EndCycle ==
    /\ pc = "done"
    /\ pc' = "loop"
    /\ idx' = AfterRepo(idx)
    /\ last_check' = None
    /\ last_commit_sha' = None
    /\ commits' = << >>
    /\ summary' = NoDigest
    /\ cycle' = NoCycle
    /\ UNCHANGED <<remote, repo_configs, db, quiet, history, sync>>

Environment ==
    \/ Tick
    \/ \E r \in Configured, b \in BranchNames : Commit(r, b)
    \/ \E r \in Configured, a \in BranchNames, b \in BranchNames : Merge(r, a, b)
    \/ Crash

Next ==
    \/ Environment
    \/ StartRepo
    \/ ReadCheckpoint
    \/ GetNewCommits
    \/ FetchRaises
    \/ Summarize
    \/ Deliver
    \/ UpdateCheckpoint
    \/ EndCycle
    \/ EndPass
    \/ WakeUp

Spec == Init /\ [][Next]_vars

\* The same program with the history variables delivered and checkpointed.
NextH ==
    \/ Environment
    \/ StartRepo
    \/ ReadCheckpoint
    \/ GetNewCommits
    \/ FetchRaises
    \/ Summarize
    \/ DeliverH
    \/ UpdateCheckpointH
    \/ EndCycle
    \/ EndPass
    \/ WakeUp

HistorySpec == Init /\ [][NextH]_vars


(***************************************************************************)
(* The checkpoint (spec.md, sections 3 and 8)                              *)
(***************************************************************************)
\* The batch the next cycle of the running repository computes from the
\* checkpoint as it is now (main.py:96-100), for given outcomes of its
\* requests.
NextCycleBatch(t_ok, s_ok, answered, status, detail_fail) ==
    Batch(get_last_check_time(db, repo, t_ok), get_last_commit_sha(db, repo, s_ok),
          answered, status, detail_fail)

\* The batch of a next cycle all of whose requests are answered.
NextCycleBatchClean == NextCycleBatch(TRUE, TRUE, Fetches, "404", {})

\* Every batch a next cycle can compute, whatever its requests answer.
NextCycleBatches ==
    { NextCycleBatch(t_ok, s_ok, answered, status, detail_fail) :
        t_ok \in BOOLEAN, s_ok \in BOOLEAN, answered \in SUBSET Fetches,
        status \in Statuses \ {"200"}, detail_fail \in SUBSET ShasOf(commits) }

\* C1 (as amended): in a cycle the checkpoint write is attempted if and only
\* if delivery returned success, and unless that write succeeds the checkpoint
\* of the repository is what it was when the cycle started; so it is after a
\* delivery that returned false or raised, and after a write that failed.
C1_WriteOnlyAfterSuccess ==
    InCycle =>
        /\ cycle.write # "none" => cycle.delivery = "true"
        /\ pc = "done" /\ cycle.delivery = "true" => cycle.write # "none"
        /\ pc = "write" => cycle.delivery = "true"
        /\ cycle.write # "ok" => db[repo] = cycle.start

\* C1, a cycle whose delivery returned false while a checkpoint exists.
C1_Witness ==
    /\ pc = "done"
    /\ cycle.delivery = "false"
    /\ IsSome(cycle.start)
    /\ db[repo] = cycle.start

\* C1 as stated: at the end of a cycle the checkpoint has been written if
\* and only if delivery returned success, and after a delivery that returned
\* false or raised it is what it was before.
C1_WrittenIffSuccess ==
    pc = "done" =>
        /\ cycle.write = "ok" <=> cycle.delivery = "true"
        /\ cycle.delivery \in {"false", "raise"} => db[repo] = cycle.start

\* C2 (as amended): the last_commit_sha of a repository changes only in the
\* checkpoint write that follows a successful delivery, and a write that
\* succeeds sets it to the full_sha of the last element of the batch just
\* delivered; so it is always the last element of the most recent batch that
\* was delivered and checkpointed.
C2_LastOfCheckpointedBatch ==
    [][\A r \in Repos :
          (db'[r] # db[r] \/ (pc = "write" /\ r = repo /\ cycle'.write = "ok"))
          => /\ pc = "write"
             /\ r = repo
             /\ cycle.delivery = "true"
             /\ IsSome(db'[r])
             /\ Get(db'[r]).last_commit_sha = Some(Last(commits).full_sha)]_vars

\* C2, a second batch has been delivered and checkpointed and has moved
\* last_commit_sha.
C2_Witness ==
    /\ pc = "done"
    /\ cycle.write = "ok"
    /\ IsSome(cycle.start)
    /\ IsSome(db[repo])
    /\ Get(db[repo]).last_commit_sha # Get(cycle.start).last_commit_sha
    /\ Get(db[repo]).last_commit_sha = Some(Last(commits).full_sha)

\* C2 as stated: when a batch has been delivered with success, a
\* last_commit_sha that is present is the full_sha of the last element of
\* that batch, the most recently delivered one.
C2_LastOfDeliveredBatch ==
    pc = "done" /\ cycle.delivery = "true" /\ IsSome(db[repo])
        => Get(db[repo]).last_commit_sha = Some(Last(commits).full_sha)

\* C3: the two fields of the checkpoint are written together or not at all.
\* In every state of a cycle the row of the repository is either the row the
\* cycle started with (so it is until delivery is confirmed and the write is
\* done, and after a write that failed), or the write has succeeded and both
\* fields are the new ones.
C3_BothFieldsOrNone ==
    InCycle =>
        \/ db[repo] = cycle.start
        \/ /\ pc = "done"
           /\ cycle.delivery = "true"
           /\ cycle.write = "ok"
           /\ IsSome(db[repo])
           /\ Get(db[repo]).last_check_time = clock
           /\ Get(db[repo]).last_commit_sha = Some(Last(commits).full_sha)

\* C3, a write has replaced both fields of an existing checkpoint.
C3_Witness ==
    /\ pc = "done"
    /\ cycle.write = "ok"
    /\ IsSome(cycle.start)
    /\ IsSome(db[repo])
    /\ Get(db[repo]).last_check_time # Get(cycle.start).last_check_time
    /\ Get(db[repo]).last_commit_sha # Get(cycle.start).last_commit_sha

C6_NeverDeliveredAgain ==
    pc = "write" /\ cycle.clean => ShasOf(commits) \cap checkpointed[repo] = {}

(***************************************************************************)
(* The program in a world without failures: every request is answered,     *)
(* every delivery and every checkpoint write succeeds, nothing crashes,    *)
(* less than a page of commits lands between two fetches of a repository,  *)
(* and the loop of run() keeps running.                                    *)
(***************************************************************************)
ReliableEnvironment ==
    \/ Tick
    \/ \E r \in Configured, b \in BranchNames : quiet[r] /\ Commit(r, b)

\* The call of get_new_commits in which every fetch gets 404 for no branch
\* and every detail request succeeds.
ReliableFetch == pc = "fetch" /\ GetNewCommitsWith(Fetches, "404", {})

ReliableRest ==
    \/ StartRepo
    \/ ReadCheckpointWith(TRUE, TRUE)
    \/ SummarizeWith("ai")
    \/ SendMessageH("true")
    \/ WriteCheckpointH(TRUE)
    \/ EndCycle
    \/ EndPass
    \/ WakeUp

ReliableProcess == ReliableFetch \/ ReliableRest

ReliableNext == ReliableEnvironment \/ ReliableProcess

\* The process is the only thread and every call it makes returns: each of
\* its steps is taken once it can be.  ReliableFetch can be taken exactly
\* when pc = "fetch" and leaves that place, so weak fairness of it says
\* that the process is not at the fetch for ever.
ReliableSpec ==
    /\ Init
    /\ [][ReliableNext]_vars
    /\ WF_vars(ReliableRest)
    /\ []<>(pc # "fetch")

\* The branches of repository r that configuration entry i monitors: the
\* branches it names, the default branch when it names none.
Monitored(i) ==
    { IF s = NoBranch THEN DefaultBranch ELSE s :
        s \in Range(ResolveBranches(repo_configs[i].branches)) }

OnMonitoredBranch(c) ==
    \E i \in 1..Len(repo_configs) : \E b \in Monitored(i) :
        c \in branch_commits[repo_configs[i].repo][b]

Delivered(c) == \E r \in Configured : c \in delivered[r]

\* C7: in the world without failures, every commit that appears on a
\* monitored branch of a configured repository is eventually in a batch that
\* was delivered with success.
C7_EventuallyDelivered ==
    \A c \in Shas : OnMonitoredBranch(c) ~> Delivered(c)

(***************************************************************************)
(* get_new_commits on its own (spec.md, sections 4 and 8)                  *)
(***************************************************************************)
\* Commit lists as the remote answers them: newest first.
CommitLists ==
    { [i \in 1..Len(SortNewestFirst(S)) |-> [sha |-> SortNewestFirst(S)[i], date |-> 0]] :
        S \in SUBSET (1..MaxLen) }

ListedShas(data) == {data[i].sha : i \in 1..Len(data)}

\* The answers to one fetch: a commit list, with the detail requests that
\* fail, or a failure.
Responses ==
    UNION { { [status |-> "200", data |-> l, detail_fail |-> f] :
                f \in SUBSET ListedShas(l) } : l \in CommitLists }
    \cup { [status |-> st, data |-> << >>, detail_fail |-> {}] :
             st \in Statuses \ {"200"} }

BranchConfigs ==
    { << >>, <<"*">>, <<"main">>, <<"main", "dev">>, <<"dev", "main">>, <<"main", "*">> }

LastShas == {None} \cup {Some(c) : c \in 1..MaxLen}

\* The configuration does not matter to the call: one is enough.
SyncInit ==
    /\ InitProgram
    /\ repo_configs[1].branches = <<"*">>
    /\ \E b \in BranchConfigs :
       \E r \in [Range(ResolveBranches(b)) -> Responses], l \in LastShas :
          sync_in = Some([branches |-> b, resp |-> r, last_sha |-> l])
    /\ sync_out = None

CallGetNewCommits ==
    /\ sync_in # None
    /\ sync_out = None
    /\ sync_out' = Some(get_new_commits(Get(sync_in).resp, Get(sync_in).last_sha,
                                        Get(sync_in).branches))
    /\ UNCHANGED <<remote, repo_configs, db, pc, idx, locals, cycle, quiet,
                   history, sync_in>>

SyncNext == CallGetNewCommits

SyncSpec == SyncInit /\ [][SyncNext]_vars

\* What the branch fetches of the call returned (github_monitor.py:39-47).
SyncBranchResults ==
    BranchResults(Get(sync_in).resp, Get(sync_in).last_sha, Get(sync_in).branches)

SyncFetched ==
    UNION { ShasOf(SyncBranchResults[i]) : i \in 1..Len(SyncBranchResults) }

Occurrences(batch, sha) == Cardinality({i \in 1..Len(batch) : batch[i].full_sha = sha})

\* C8: the output of get_new_commits holds no full_sha twice, and every
\* commit that at least one branch fetch returned is in it exactly once.
C8_EachCommitOnce ==
    sync_out # None =>
        /\ \A sha \in 1..MaxLen : Occurrences(Get(sync_out), sha) <= 1
        /\ \A sha \in SyncFetched : Occurrences(Get(sync_out), sha) = 1

\* C8, a commit returned by the fetches of two branches is in the output.
C8_Witness ==
    /\ sync_out # None
    /\ Len(SyncBranchResults) = 2
    /\ \E sha \in ShasOf(SyncBranchResults[1]) \cap ShasOf(SyncBranchResults[2]) :
          Occurrences(Get(sync_out), sha) = 1

\* The single fetch result of a call for one branch that was answered.
OneBranch ==
    /\ Len(ResolveBranches(Get(sync_in).branches)) = 1
    /\ Get(sync_in).resp[ResolveBranches(Get(sync_in).branches)[1]].status = "200"

FetchResult == Get(sync_in).resp[ResolveBranches(Get(sync_in).branches)[1]].data

\* C9: for the newest-first fetch result S of one branch and a
\* last_commit_sha that is the sha of S[k], get_new_commits returns the
\* commits before position k, oldest first, and nothing else.
C9_Truncation ==
    sync_out # None /\ OneBranch /\ IsSome(Get(sync_in).last_sha) =>
        \A k \in 1..Len(FetchResult) :
            FetchResult[k].sha = Get(Get(sync_in).last_sha) =>
                Get(sync_out) = Reverse([i \in 1..(k - 1) |-> FormatCommit(FetchResult[i])])

\* C10: without a last_commit_sha, every commit of the commit list of an
\* answered fetch is in the output of get_new_commits.
C10_FirstRun ==
    sync_out # None /\ Get(sync_in).last_sha = None =>
        \A s \in DOMAIN Get(sync_in).resp :
            Get(sync_in).resp[s].status = "200" =>
                ListedShas(Get(sync_in).resp[s].data) \subseteq ShasOf(Get(sync_out))

\* The commits of an answered fetch that the truncation at last_commit_sha
\* retains (github_monitor.py:85-92).
Retained(response, last_sha) ==
    ListedShas(IF IsSome(last_sha) THEN TakeUntil(response.data, Get(last_sha))
               ELSE response.data)

\* C11: a commit that the truncation retains is in the output of
\* get_new_commits whether its detail request fails or not: a failed detail
\* request never removes a commit from the batch.
C11_EnrichmentFailureKeepsCommit ==
    sync_out # None =>
        \A s \in DOMAIN Get(sync_in).resp :
            Get(sync_in).resp[s].status = "200" =>
                \A sha \in Retained(Get(sync_in).resp[s], Get(sync_in).last_sha) :
                    sha \in ShasOf(Get(sync_out))

(***************************************************************************)
(* The cycle of process_repo (spec.md, sections 4, 5 and 8)                *)
(***************************************************************************)
\* C12: when get_new_commits returns an empty list the cycle ends there: the
\* summarizer is not called, send_message is not called, no checkpoint write
\* is made, and the checkpoint of the repository is what it was.
C12_NoOpOnEmptyBatch ==
    (InCycle /\ pc \notin {"read", "fetch"} /\ commits = << >>)
        => /\ pc = "done"
           /\ summary = NoDigest
           /\ cycle.sends = 0
           /\ cycle.writes = 0
           /\ cycle.delivery = "none"
           /\ db[repo] = cycle.start

\* C12, a cycle over an existing checkpoint has ended on an empty batch.
C12_Witness ==
    /\ pc = "done"
    /\ commits = << >>
    /\ IsSome(db[repo])
    /\ cycle.clean

(***************************************************************************)
(* The digest on its own: the text built for a batch of up to MaxBatch     *)
(* commits and each outcome of the summarizer.                             *)
(***************************************************************************)
MaxBatch == 7

Batches ==
    { [i \in 1..Cardinality(S) |->
          [full_sha |-> Reverse(SortNewestFirst(S))[i], date |-> 0]] :
        S \in SUBSET (1..MaxBatch) } \ {<< >>}

DigestInit ==
    /\ InitProgram
    /\ repo_configs[1].branches = <<"*">>
    /\ \E batch \in Batches, outcome \in SummaryOutcomes :
          sync_in = Some([commits |-> batch, outcome |-> outcome])
    /\ sync_out = None

CallSummarize ==
    /\ sync_in # None
    /\ sync_out = None
    /\ sync_out' = Some(Digest(Get(sync_in).commits, Get(sync_in).outcome))
    /\ UNCHANGED <<remote, repo_configs, db, pc, idx, locals, cycle, quiet,
                   history, sync_in>>

DigestNext == CallSummarize

DigestSpec == DigestInit /\ [][DigestNext]_vars

\* The text lists the first cap commits of the batch, all of them when
\* there are no more, and notes the count of the others when there are.
Lists(digest, batch, cap) ==
    /\ Len(digest.listed) = Min2(Len(batch), cap)
    /\ \A i \in 1..Len(digest.listed) : digest.listed[i] = batch[i].full_sha
    /\ digest.more = IF Len(batch) > cap THEN Len(batch) - cap ELSE 0

C14_DeliveredOnceWithText ==
    (InCycle /\ commits # << >>)
        => /\ pc \in {"write", "done"} => cycle.sends = 1 /\ summary # NoDigest
           /\ pc = "deliver" => cycle.sends = 0 /\ summary # NoDigest
           /\ pc = "summarize" => cycle.sends = 0

\* C14, the summarizer has failed and send_message has been called.
C14_Witness ==
    /\ pc = "done"
    /\ commits # << >>
    /\ summary.kind \in {"simple", "fallback"}
    /\ cycle.sends = 1

\* C16: a cycle makes at most one call of send_message and at most one
\* checkpoint write, whatever the outcomes of its steps.
C16_AtMostOneSendAndWrite ==
    /\ cycle.sends <= 1
    /\ cycle.writes <= 1
    /\ cycle.writes = 1 => cycle.sends = 1

\* C16, a cycle has ended after a delivery and a checkpoint write that
\* failed.
C16_Witness ==
    /\ pc = "done"
    /\ cycle.sends = 1
    /\ cycle.writes = 1
    /\ cycle.write = "failed"

\* The all-branches sentinel of a branch configuration: absent or empty, or
\* holding the wildcard.
AllBranches(b) == b = << >> \/ \E i \in 1..Len(b) : b[i] = "*"

\* The calls of _get_branch_commits of the stand-alone call, for a since.
SyncFetchCalls(since) ==
    FetchCalls(since, Get(sync_in).last_sha, Get(sync_in).branches)

\* C15: a branch configuration that is the all-branches sentinel makes
\* exactly one fetch, without a branch selector; an explicit list makes one
\* fetch per named branch, in the order of the list; every fetch is given
\* the since and the last_commit_sha of the call; and the call has one
\* branch result per fetch.
C15_BranchSetResolution ==
    sync_out # None =>
        \A since \in {None} \cup {Some(t) : t \in 0..MaxLen} :
            LET b == Get(sync_in).branches
                calls == SyncFetchCalls(since)
            IN  /\ AllBranches(b) => Len(calls) = 1 /\ calls[1].branch = NoBranch
                /\ ~AllBranches(b) =>
                      /\ Len(calls) = Len(b)
                      /\ \A i \in 1..Len(b) : calls[i].branch = b[i]
                /\ \A i \in 1..Len(calls) :
                      /\ calls[i].since = since
                      /\ calls[i].last_commit_sha = Get(sync_in).last_sha
                /\ Len(SyncBranchResults) = Len(calls)

\* C15, the call for the explicit list [dev, main] has fetched dev, then
\* main.
C15_Witness ==
    /\ sync_out # None
    /\ Get(sync_in).branches = <<"dev", "main">>
    /\ Len(SyncBranchResults) = 2
    /\ SyncFetchCalls(None)[1].branch = "dev"
    /\ SyncFetchCalls(None)[2].branch = "main"

\* C17: a fetch that fails (404, 403, another status or a network error)
\* gives an empty list for its branch and nothing else: the output of
\* get_new_commits holds exactly the commits that the fetches of the other
\* branches returned.
C17_FailedBranchOnly ==
    sync_out # None =>
        LET calls == SyncFetchCalls(None)
            resp == Get(sync_in).resp
            answered == {i \in 1..Len(calls) : resp[calls[i].branch].status = "200"}
        IN  /\ \A i \in (1..Len(calls)) \ answered : SyncBranchResults[i] = << >>
            /\ ShasOf(Get(sync_out)) =
                  UNION { ShasOf(get_branch_commits(resp[calls[i].branch],
                                                    Get(sync_in).last_sha)) :
                          i \in answered }

\* C17, the fetch of the first of two branches has failed and the commits
\* of the second are in the output.
C17_Witness ==
    /\ sync_out # None
    /\ Len(SyncFetchCalls(None)) = 2
    /\ Get(sync_in).resp[SyncFetchCalls(None)[1].branch].status # "200"
    /\ Get(sync_in).resp[SyncFetchCalls(None)[2].branch].status = "200"
    /\ SyncBranchResults[2] # << >>
    /\ ShasOf(Get(sync_out)) = ShasOf(SyncBranchResults[2])

\* The stored value of a field of the checkpoint of the running repository.
Stored(field) == IF IsSome(db[repo]) THEN Get(db[repo])[field] ELSE None

\* C19 (as amended): the two fields of the checkpoint are read one by one,
\* and get_new_commits is called with each field whose read failed absent
\* and each field whose read succeeded as it is stored; when both reads
\* fail the call is the one of the first check of the repository.
C19_FailedReadIsAbsent ==
    pc = "fetch" =>
        /\ cycle.time_read = "failed" => last_check = None
        /\ cycle.sha_read = "failed" => last_commit_sha = None
        /\ cycle.time_read = "ok" /\ IsSome(db[repo])
              => last_check = Some(Stored("last_check_time"))
        /\ cycle.sha_read = "ok" => last_commit_sha = Stored("last_commit_sha")
        /\ db[repo] = None => last_check = None /\ last_commit_sha = None

\* C19, the read of last_check_time has failed and the read of
\* last_commit_sha has not: the call is made with the first absent and the
\* second present.
C19_Witness ==
    /\ pc = "fetch"
    /\ cycle.time_read = "failed"
    /\ cycle.sha_read = "ok"
    /\ last_check = None
    /\ IsSome(last_commit_sha)

\* C19 as stated: after a failed read of the checkpoint, get_new_commits is
\* called with both last_check_time and last_commit_sha absent.
C19_BothAbsent ==
    pc = "fetch" /\ (cycle.time_read = "failed" \/ cycle.sha_read = "failed")
        => last_check = None /\ last_commit_sha = None

(***************************************************************************)
(* A pass of run() over two repositories.                                  *)
(***************************************************************************)
TwoRepos ==
    <<[repo |-> "r1", branches |-> <<"*">>], [repo |-> "r2", branches |-> <<"*">>]>>

PassInit ==
    /\ InitFor({TwoRepos})
    /\ sync_in = None
    /\ sync_out = None

\* The remote of a pass over two repositories.  Which repository the loop
\* takes next does not depend on the time of day, so the clock stands still
\* here; commits, merges and kills go on as in Environment.
PassEnvironment ==
    \/ \E r \in Configured, b \in BranchNames : Commit(r, b)
    \/ \E r \in Configured, a \in BranchNames, b \in BranchNames : Merge(r, a, b)
    \/ Crash

PassNext ==
    \/ PassEnvironment
    \/ StartRepo
    \/ ReadCheckpoint
    \/ GetNewCommits
    \/ FetchRaises
    \/ Summarize
    \/ Deliver
    \/ UpdateCheckpoint
    \/ EndCycle
    \/ EndPass
    \/ WakeUp

PassSpec == PassInit /\ [][PassNext]_vars

\* C18: an exception raised in the cycle of a repository is caught in
\* process_repo and ends that cycle only: the step after it takes the for
\* loop of run() to the next repository (unless the process is killed), and
\* run() goes to sleep only when the loop has been through every configured
\* repository.
C18_ErrorStaysInCycle ==
    [][/\ (cycle'.error /\ ~cycle.error) => (pc' = "done" /\ idx' = idx)
       /\ cycle.error => (pc' = "loop" /\ idx' \in {idx + 1, 1})
       /\ (pc' = "sleep" /\ pc # "sleep") => idx > Len(repo_configs)]_vars

\* C18, the fetch of the first of two repositories has raised and the
\* exception has been caught.
C18_Witness ==
    /\ cycle.error
    /\ pc = "done"
    /\ idx = 1
    /\ Len(repo_configs) = 2

(***************************************************************************)
(* run() as a whole (spec.md, sections 5 and 7): a pass over two           *)
(* repositories, with the handlers of the while loop (main.py:73-78).      *)
(***************************************************************************)
\* A variant in which the exception ends run().
TopErrorTarget_exit == "exited"

\* except Exception (main.py:76-78): the error is logged and run() sleeps
\* for 60 seconds.
TopErrorTarget == "backoff"

\* A statement of the while loop outside process_repo raises: the for
\* statement or the log line of main.py:67-70, or time.sleep (line 71).
TopLevelError ==
    /\ pc \in {"loop", "sleep"}
    /\ pc' = TopErrorTarget
    /\ UNCHANGED <<remote, repo_configs, db, idx, locals, cycle, quiet, history, sync>>

\* time.sleep(60) returns and the while loop starts the next pass
\* (main.py:78, 64-67).
BackOff ==
    /\ pc = "backoff"
    /\ pc' = "loop"
    /\ idx' = 1
    /\ UNCHANGED <<remote, repo_configs, db, locals, cycle, quiet, history, sync>>

\* KeyboardInterrupt is raised in the main thread, wherever it is.  It is
\* not an Exception: no handler of process_repo catches it, the handler of
\* main.py:73-75 leaves the while loop.  The locals are left as they were
\* when it arrived.
Interrupt ==
    /\ pc \notin {"interrupted", "exited"}
    /\ pc' = "interrupted"
    /\ UNCHANGED <<remote, repo_configs, db, idx, locals, cycle, quiet, history, sync>>

RunNext ==
    \/ PassNext
    \/ TopLevelError
    \/ BackOff
    \/ Interrupt

RunSpec == PassInit /\ [][RunNext]_vars

\* A step that starts run() again from the first repository: the next
\* pass after a sleep, or a restart of the process.
FromTheTop == pc' = "loop" /\ idx' = 1

\* C25: in each pass the repositories are processed once each, in the order
\* of the configuration and one at a time: a cycle starts only from the for
\* loop, for the repository at the position of the loop; the position moves
\* only by one, when the cycle of the repository has finished; the loop
\* goes on to the cycle of the next repository while there is one, and run()
\* sleeps only when the loop is past the last one; after the sleep the next
\* pass starts with the first repository.
C25_OnceEachInOrder ==
    [][/\ pc' = "read" => (pc = "loop" /\ idx' = idx /\ idx \in 1..Len(repo_configs))
       /\ idx' # idx => \/ pc = "done" /\ pc' = "loop" /\ idx' = idx + 1
                        \/ FromTheTop
       /\ (pc = "done" /\ pc' = "loop") => (idx' = idx + 1 \/ FromTheTop)
       /\ (InCycle /\ pc' = "loop") => (pc = "done" \/ FromTheTop)
       /\ (pc = "loop" /\ pc' \in {"read", "sleep"})
             => pc' = IF idx <= Len(repo_configs) THEN "read" ELSE "sleep"
       /\ (pc' = "sleep" /\ pc # "sleep")
             => (pc = "loop" /\ idx = Len(repo_configs) + 1 /\ idx' = idx)
       /\ (pc = "sleep" /\ pc' = "loop") => idx' = 1]_vars

\* C25, run() sleeps after a pass in which the cycles of both repositories
\* have delivered and written their checkpoints.
C25_Witness ==
    /\ pc = "sleep"
    /\ idx = Len(repo_configs) + 1
    /\ Len(repo_configs) = 2
    /\ IsSome(db["r1"])
    /\ IsSome(db["r2"])

\* C26: an exception raised in the while loop of run() outside
\* process_repo does not end run(): it leads to the sleep of 60 seconds,
\* and from there on to a new pass that starts with the first repository;
\* run() ends only when it is interrupted.
C26_TopErrorBacksOff ==
    [][/\ pc' # "exited"
       /\ (pc' = "backoff" /\ pc # "backoff") => pc \in {"loop", "sleep"}
       /\ pc = "backoff" => (FromTheTop \/ pc' = "interrupted")
       /\ (pc' = "interrupted" /\ pc # "interrupted") => UNCHANGED <<idx, cycle, db>>]_vars

\* C26, an exception was raised in the for loop after the cycle of the
\* first repository, which had written its checkpoint, and run() is in the
\* sleep of 60 seconds.
C26_Witness ==
    /\ pc = "backoff"
    /\ idx = 2
    /\ IsSome(db["r1"])
    /\ db["r2"] = None

\* C27: run() stops on an interrupt only between two repositories or two
\* passes, never in the middle of the cycle of a repository, and so never
\* between a delivery that succeeded and the checkpoint write.
C27_StopsAtLoopBoundary ==
    pc = "interrupted" => cycle = NoCycle

\* C28: the cycle of a repository reads and writes the checkpoint of that
\* repository only: a step changes the row of repository r only in the
\* cycle of r, so the rows of the others are after the cycle what they were
\* before it, and what the cycle reads is in the row of its repository.
C28_OwnCheckpointOnly ==
    [][/\ \A r \in Repos : db'[r] # db[r] => (pc = "write" /\ r = repo)
       /\ (pc = "read" /\ pc' = "fetch") =>
             /\ last_check' \in {None} \cup {Some(Get(db[r]).last_check_time) :
                                                r \in {repo} \cap {q \in Repos : IsSome(db[q])}}
             /\ last_commit_sha' \in {None} \cup {Get(db[r]).last_commit_sha :
                                                     r \in {repo} \cap {q \in Repos : IsSome(db[q])}}]_vars

\* C28, the cycle of the second repository has written its checkpoint and
\* the first repository has another one.
C28_Witness ==
    /\ pc = "done"
    /\ idx = 2
    /\ cycle.write = "ok"
    /\ IsSome(db["r1"])
    /\ IsSome(db["r2"])
    /\ db["r1"] # db["r2"]

(***************************************************************************)
(* The configuration on its own: Config.github_repos with up to MaxEntries *)
(* entries, validated and normalised (config.py).                          *)
(***************************************************************************)
MaxEntries == 2

\* Values of the "repo" field of an entry: "" stands for a missing or empty
\* one, "noslash" for a name without '/', the names of Repos for owner/repo
\* names.
RepoFields == {"", "noslash"} \cup Repos

\* Values of the "branches" key: a list of branch names or a single name.
BranchesValues ==
    { [is_list |-> TRUE, list |-> l, scalar |-> ""] :
        l \in {<< >>, <<"*">>, <<"main", "dev">>, <<"dev", "main">>} }
    \cup { [is_list |-> FALSE, list |-> << >>, scalar |-> "dev"] }

\* An entry of github_repos: a plain string, or a dict with the keys "repo",
\* "branch" and "branches", each of the last two present or not.
StrEntry(r) == [form |-> "str", repo |-> r, branch |-> None, branches |-> None]

Entries ==
    { StrEntry(r) : r \in RepoFields }
    \cup { [form |-> "dict", repo |-> r, branch |-> b, branches |-> bs] :
             r \in RepoFields,
             b \in {None, Some("*"), Some("main")},
             bs \in {None} \cup {Some(v) : v \in BranchesValues} }

\* '/' in v
HasSlash(v) == v \in Repos

\* validator of github_repos: the list is not empty, every string has a
\* '/', every dict has a non-empty repo with a '/'.
validate_repos(v) ==
    /\ v # << >>
    /\ \A i \in 1..Len(v) : HasSlash(v[i].repo)

EntryBranches_wildcard(item) == <<"*">>

\* The branches of one entry (config.py:44-46 and 52-58).
EntryBranches(item) ==
    IF item.form = "str" THEN <<"*">>
    ELSE IF IsSome(item.branch) THEN <<Get(item.branch)>>
    ELSE IF IsSome(item.branches)
         THEN IF Get(item.branches).is_list
              THEN Get(item.branches).list
              ELSE <<Get(item.branches).scalar>>
    ELSE <<"*">>

\* RepoConfig(repo=..., branches=...) raises when the repo has no '/', and a
\* dict without repo raises before that (config.py:16-21, 48-50).
EntryRaises(item) ==
    \/ item.form = "dict" /\ item.repo = ""
    \/ ~HasSlash(item.repo)

RECURSIVE get_repo_configs_from(_, _)
get_repo_configs_from(github_repos, configs) ==
    IF github_repos = << >> THEN [raised |-> FALSE, configs |-> configs]
    ELSE IF EntryRaises(Head(github_repos)) THEN [raised |-> TRUE, configs |-> << >>]
    ELSE get_repo_configs_from(
             Tail(github_repos),
             Append(configs, [repo |-> Head(github_repos).repo,
                              branches |-> EntryBranches(Head(github_repos))]))

get_repo_configs(github_repos) == get_repo_configs_from(github_repos, << >>)

ConfigInit ==
    /\ InitFor({<< >>})
    /\ \E n \in 1..MaxEntries : \E v \in [1..n -> Entries] : sync_in = Some(v)
    /\ sync_out = None

\* Config(**data) followed by get_repo_configs(): a list the validator
\* rejects never gets to get_repo_configs.
LoadConfig ==
    /\ sync_in # None
    /\ sync_out = None
    /\ sync_out' = Some(IF validate_repos(Get(sync_in))
                        THEN get_repo_configs(Get(sync_in))
                        ELSE [raised |-> TRUE, configs |-> << >>])
    /\ UNCHANGED <<remote, repo_configs, db, pc, idx, locals, cycle, quiet,
                   history, sync_in>>

ConfigNext == LoadConfig

ConfigSpec == ConfigInit /\ [][ConfigNext]_vars

\* C20: get_repo_configs answers for every list of entries of a loaded
\* configuration, with one RepoConfig per entry in the order of the list: the
\* repo of the entry, and as branches ["*"] for a plain string, [b] for an
\* object with "branch": b, the list itself for an object with "branches": a
\* list (and no "branch"), ["*"] for an object with neither key.
C20_NormalizedInOrder ==
    (sync_out # None /\ validate_repos(Get(sync_in))) =>
        /\ ~Get(sync_out).raised
        /\ Len(Get(sync_out).configs) = Len(Get(sync_in))
        /\ \A i \in 1..Len(Get(sync_in)) :
              LET item == Get(sync_in)[i]
                  config == Get(sync_out).configs[i]
              IN  /\ config.repo = item.repo
                  /\ item.form = "str" => config.branches = <<"*">>
                  /\ (item.form = "dict" /\ IsSome(item.branch))
                        => config.branches = <<Get(item.branch)>>
                  /\ (item.form = "dict" /\ item.branch = None
                        /\ IsSome(item.branches) /\ Get(item.branches).is_list)
                        => config.branches = Get(item.branches).list
                  /\ (item.form = "dict" /\ item.branch = None /\ item.branches = None)
                        => config.branches = <<"*">>

\* C20, a list of two entries has been normalised: an object with the
\* branches main and dev, then a plain string.
C20_Witness ==
    /\ sync_out # None
    /\ Len(Get(sync_in)) = 2
    /\ Get(sync_in)[1].form = "dict"
    /\ Get(sync_in)[1].branch = None
    /\ Get(sync_in)[1].branches = Some([is_list |-> TRUE, list |-> <<"main", "dev">>, scalar |-> ""])
    /\ Get(sync_in)[2] = StrEntry("r2")
    /\ Get(sync_out).configs =
          <<[repo |-> Get(sync_in)[1].repo, branches |-> <<"main", "dev">>],
            [repo |-> "r2", branches |-> <<"*">>]>>

(***************************************************************************)
(* The checkpoint and the order of the batch (spec.md, sections 4.2, 4.3)  *)
(***************************************************************************)
\* C21: after a successful delivery and checkpoint write, the commit whose
\* full_sha was written as last_commit_sha is the newest commit of the batch:
\* no commit of the batch has a later date.
C21_NewestIsWritten ==
    (pc = "done" /\ cycle.delivery = "true" /\ cycle.write = "ok") =>
        \A i \in 1..Len(commits) :
            commits[i].date <= dates[Get(Get(db[repo]).last_commit_sha)]

\* The list s without every occurrence of a full_sha after its first one.
FirstOccurrences(s) ==
    LET keep == {i \in 1..Len(s) : \A j \in 1..(i - 1) : s[j].full_sha # s[i].full_sha}
        nth(k) == CHOOSE i \in keep : Cardinality({j \in keep : j < i}) = k - 1
    IN  [k \in 1..Cardinality(keep) |-> s[nth(k)]]

\* C22: the output of get_new_commits is the reversal of the concatenation
\* of the per-branch results, in the declared branch order, without every
\* occurrence of a full_sha after its first one; for a single branch it is
\* the result of the fetch in reversed order.
C22_ReversedFirstOccurrences ==
    sync_out # None =>
        /\ Get(sync_out) = Reverse(FirstOccurrences(Concat(SyncBranchResults)))
        /\ Len(SyncBranchResults) = 1 => Get(sync_out) = Reverse(SyncBranchResults[1])

\* C22, two branch fetches have returned lists with a common commit and
\* other commits, and the output holds the common one once.
C22_Witness ==
    /\ sync_out # None
    /\ Len(SyncBranchResults) = 2
    /\ Len(SyncBranchResults[1]) >= 2
    /\ Len(SyncBranchResults[2]) >= 2
    /\ SyncBranchResults[1] # SyncBranchResults[2]
    /\ Len(Get(sync_out)) = 3
    /\ Len(Concat(SyncBranchResults)) = 4

\* Commit c has landed on a monitored branch of the running repository after
\* the fetch of the cycle, and the cycle is about to write the checkpoint.
LandedBeforeWrite(c) ==
    /\ pc = "write"
    /\ ~quiet[repo]
    /\ c = Len(dates)
    /\ c \in UNION {branch_commits[repo][b] : b \in Monitored(idx)}

\* C23: in the world without failures, a commit that lands on a monitored
\* branch after the fetch of a cycle and before its checkpoint write is
\* returned by get_new_commits in a later cycle.
C23_LandedBeforeWriteIsFetched ==
    \A c \in Shas : LandedBeforeWrite(c) ~> (c \in ShasOf(commits))

(***************************************************************************)
(* The world without failures except for the branch fetches: in a cycle    *)
(* the fetch of some branch may get a 500, and cycles in which every fetch *)
(* is answered keep coming.                                                *)
(***************************************************************************)
\* A call of get_new_commits in which at least one fetch gets a 500.
FlakyFetch ==
    /\ pc = "fetch"
    /\ \E answered \in (SUBSET Fetches) \ {Fetches} :
          GetNewCommitsWith(answered, "500", {})

FlakyNext == ReliableNext \/ FlakyFetch

FlakySpec ==
    /\ Init
    /\ [][FlakyNext]_vars
    /\ WF_vars(ReliableRest)
    /\ []<>(pc # "fetch")
    /\ []<><<ReliableFetch>>_vars

\* A cycle in which a fetch has failed has delivered and checkpointed the
\* commits of another branch, no commit has landed since its fetch, and
\* commit c of a monitored branch has not been delivered.
DeferredByFailedFetch(c) ==
    /\ pc = "done"
    /\ ~cycle.clean
    /\ cycle.delivery = "true"
    /\ cycle.write = "ok"
    /\ quiet[repo]
    /\ c \in UNION {branch_commits[repo][b] : b \in Monitored(idx)}
    /\ c \notin delivered[repo]

\* C24: the commits of a branch whose fetch failed in a cycle that delivered
\* and checkpointed the commits of another branch are returned by
\* get_new_commits in a later cycle in which the fetch of the branch
\* succeeds.
C24_FailedBranchIsDeferred ==
    \A c \in Shas : DeferredByFailedFetch(c) ~> (cycle.clean /\ c \in ShasOf(commits))

(***************************************************************************)
(* The rows of the checkpoint table (spec.md, section 3)                   *)
(***************************************************************************)
\* C29 (as amended): the row of a repository is created only by the
\* checkpoint write of a cycle whose batch was not empty and whose delivery
\* succeeded; once it exists no step deletes it or changes its created_at;
\* and every checkpoint write that succeeds leaves the row with the time and
\* the commit of that cycle.
C29_RowLifecycle ==
    [][\A r \in Repos :
          /\ (db[r] = None /\ db'[r] # None)
                => /\ pc = "write" /\ r = repo
                   /\ cycle.delivery = "true"
                   /\ commits # << >>
                   /\ Get(db'[r]).created_at = clock
          /\ db[r] # None
                => /\ db'[r] # None
                   /\ Get(db'[r]).created_at = Get(db[r]).created_at
          /\ (pc = "write" /\ r = repo /\ cycle'.write = "ok")
                => /\ db'[r] # None
                   /\ Get(db'[r]).last_check_time = clock
                   /\ Get(db'[r]).updated_at = clock
                   /\ Get(db'[r]).last_commit_sha = Some(Last(commits).full_sha)]_vars

\* C29, a later cycle has updated the row of the repository, which keeps
\* the created_at of the cycle that created it.
C29_Witness ==
    /\ pc = "done"
    /\ cycle.write = "ok"
    /\ IsSome(cycle.start)
    /\ IsSome(db[repo])
    /\ Get(db[repo]).created_at = Get(cycle.start).created_at
    /\ Get(db[repo]).updated_at > Get(db[repo]).created_at
    /\ Get(db[repo]).last_commit_sha # Get(cycle.start).last_commit_sha

\* C29 as stated: the first cycle with a successful delivery creates the
\* row and every later one updates it: after the checkpoint step of a cycle
\* whose delivery succeeded the row exists and holds the commit of that
\* cycle.
C29_EverySuccessfulCycleWrites ==
    [][(pc = "write" /\ pc' = "done") =>
          /\ db'[repo] # None
          /\ Get(db'[repo]).last_commit_sha = Some(Last(commits).full_sha)]_vars

=============================================================================
